---- MODULE Spec2Model ----
(***************************************************************************)
(* Model of experiment_app.py: a Streamlit application with two workflows  *)
(* (phenol-water CST determination, conductometric titration) driven by    *)
(* st.session_state.page.  One action is one script run: the handler of    *)
(* the current page executed from its first line, with at most one button  *)
(* pressed.  Numbers are exact rationals <<numerator, denominator>> in the *)
(* units of the program (ml, degrees C, %, mS).                            *)
(***************************************************************************)
EXTENDS Integers, Sequences, FiniteSets, TLC

VARIABLES page, shown, button,
          phenol_data, water_vol, phenol_vol, disappear, reappear, total,
          cst_temp, cst_conc,
          cond_data, naoh_normality, current_naoh, naoh_titration

vars == <<page, shown, button,
          phenol_data, water_vol, phenol_vol, disappear, reappear, total,
          cst_temp, cst_conc,
          cond_data, naoh_normality, current_naoh, naoh_titration>>

phenolVars == <<phenol_data, water_vol, phenol_vol, disappear, reappear, total>>
condVars == <<cond_data, naoh_normality, current_naoh, naoh_titration>>

----------------------------------------------------------------------------
(* Bounds of the model                                                     *)

MaxRows == 2
MaxCondRows == 2

----------------------------------------------------------------------------
(* Arithmetic of the program's numbers, as exact rationals                 *)

RECURSIVE GCD(_, _)
GCD(a, b) == IF b = 0 THEN a ELSE GCD(b, a % b)

Abs(x) == IF x < 0 THEN 0 - x ELSE x

\* n/d in lowest terms with a positive denominator
Rat(n, d) ==
    LET g == GCD(Abs(n), Abs(d))
        s == IF d < 0 THEN 0 - 1 ELSE 1
    IN  <<(s * n) \div g, (s * d) \div g>>

Num(n) == <<n, 1>>
RAdd(a, b) == Rat(a[1] * b[2] + b[1] * a[2], a[2] * b[2])
RSub(a, b) == Rat(a[1] * b[2] - b[1] * a[2], a[2] * b[2])
RMul(a, b) == Rat(a[1] * b[1], a[2] * b[2])
RDiv(a, b) == Rat(a[1] * b[2], a[2] * b[1])
RLt(a, b) == a[1] * b[2] < b[1] * a[2]
RLe(a, b) == a[1] * b[2] <= b[1] * a[2]
RMin(a, b) == IF RLe(a, b) THEN a ELSE b

\* a session_state attribute that has not been assigned, or nothing displayed
Unset == <<>>

----------------------------------------------------------------------------
(* Widget ranges and the values the user enters                            *)

WaterMin == Num(3)
WaterMax == Num(36)
\* (variant) the lower limit of the phenol volume a decimal place off
PhenolMinTenth == Rat(1, 2)

PhenolMin == Num(5)
PhenolMax == Num(10)
NaohUsedMin == Rat(1, 10)
NaohUsedMax == Num(50)
NaohAddedMin == Num(0)
NaohAddedMax == Num(8)

InRange(v, lo, hi) == RLe(lo, v) /\ RLe(v, hi)

\* values typed into "Water volume (ml)"; the widget's default is the
\* session's water volume
WaterEntered == {Rat(13, 2), Num(35), Num(36)}
WaterInputs(default) ==
    {w \in WaterEntered \cup {default} : InRange(w, WaterMin, WaterMax)}

\* values typed into "Phenol volume (ml)"
PhenolEntered == {Rat(1, 2), Num(5), Num(6), Num(9), Num(12)}
PhenolInputs == {p \in PhenolEntered : InRange(p, PhenolMin, PhenolMax)}

\* values typed into "Volume of NaOH used (ml)"
NaohUsedEntered == {Rat(37, 2)}
NaohUsedInputs ==
    {v \in NaohUsedEntered : InRange(v, NaohUsedMin, NaohUsedMax)}

\* values typed into "Add NaOH (ml)"; the default is current_naoh
NaohAddedEntered == {Num(0), Num(4), Num(8)}
NaohAddedInputs(default) ==
    {v \in NaohAddedEntered \cup {default} :
        InRange(v, NaohAddedMin, NaohAddedMax)}

----------------------------------------------------------------------------
(* Session state initialisation                                            *)

Init ==
    /\ page = "home"
    /\ shown = "none"
    /\ button = "none"
    /\ phenol_data = <<>>
    /\ water_vol = Num(3)
    /\ phenol_vol = Unset
    /\ disappear = Unset
    /\ reappear = Unset
    /\ total = Unset
    /\ cst_temp = Unset
    /\ cst_conc = Unset
    /\ cond_data = <<>>
    /\ naoh_normality = Rat(1, 10)
    /\ current_naoh = Num(0)
    /\ naoh_titration = Unset

\* a script run that draws no phase diagram shows no CST summary
NoSummary == cst_temp' = Unset /\ cst_conc' = Unset

\* a script run of the page's handler in which no button is pressed
RenderOnly(p) ==
    /\ page = p
    /\ shown' = p
    /\ button' = "none"
    /\ NoSummary
    /\ UNCHANGED <<page, phenolVars, condVars>>

\* a button can be pressed when the run before this one drew it
Pressed(p, b) == page = p /\ shown = p /\ shown' = p /\ button' = b

----------------------------------------------------------------------------
(* Home page                                                               *)

HomeRender == RenderOnly("home")

HomeSelectPhenol ==
    /\ Pressed("home", "phenol")
    /\ page' = "phenol_intro"
    /\ NoSummary
    /\ UNCHANGED <<phenolVars, condVars>>

HomeSelectTitration ==
    /\ Pressed("home", "titration")
    /\ page' = "cond_intro"
    /\ NoSummary
    /\ UNCHANGED <<phenolVars, condVars>>

----------------------------------------------------------------------------
(* Phenol-water experiment                                                 *)

PhenolIntroRender == RenderOnly("phenol_intro")

\* (variant) Start that keeps the table of the previous run
PhenolIntroStartKeepsTable ==
    /\ Pressed("phenol_intro", "start_phenol")
    /\ water_vol' = Num(3)
    /\ page' = "phenol_exp1"
    /\ NoSummary
    /\ UNCHANGED <<phenol_data, phenol_vol, disappear, reappear, total,
                   condVars>>

PhenolIntroStart ==
    /\ Pressed("phenol_intro", "start_phenol")
    /\ phenol_data' = <<>>
    /\ water_vol' = Num(3)
    /\ page' = "phenol_exp1"
    /\ NoSummary
    /\ UNCHANGED <<phenol_vol, disappear, reappear, total, condVars>>

HasPair(table, phenol, water) ==
    \E i \in 1..Len(table) :
        table[i].phenol = phenol /\ table[i].water = water

PhenolExp1Render == RenderOnly("phenol_exp1")

\* (variant) "Heat Mixture" that stores the water but not the phenol
PhenolExp1HeatDropsPhenol ==
    /\ Pressed("phenol_exp1", "heat")
    /\ \E water \in WaterInputs(water_vol) : water_vol' = water
    /\ page' = "phenol_exp2"
    /\ NoSummary
    /\ UNCHANGED <<phenol_data, phenol_vol, disappear, reappear, total,
                   condVars>>

PhenolExp1Heat ==
    /\ Pressed("phenol_exp1", "heat")
    /\ \E water \in WaterInputs(water_vol), phenol \in PhenolInputs :
          /\ Len(phenol_data) < MaxRows \/ HasPair(phenol_data, phenol, water)
          /\ phenol_vol' = phenol
          /\ water_vol' = water
    /\ page' = "phenol_exp2"
    /\ NoSummary
    /\ UNCHANGED <<phenol_data, disappear, reappear, total, condVars>>

\* (variant) phenol taken relative to the water instead of the mixture
PercentPhenolOfWater(phenol, tot) ==
    RMul(RDiv(phenol, RSub(tot, phenol)), Num(100))

PercentPhenol(phenol, tot) == RMul(RDiv(phenol, tot), Num(100))

Segment1(pp) == RAdd(Num(32), RMul(pp, Rat(35, 10)))
Segment2(pp) == RAdd(Num(65), RMul(RSub(pp, Num(10)), Rat(25, 100)))
Segment3(pp) == RSub(Num(70), RMul(RSub(pp, Num(30)), Rat(1, 10)))
Segment4(pp) == RSub(Num(66), RMul(RSub(pp, Num(70)), Rat(3, 10)))

Disappear(pp) ==
    IF RLt(pp, Num(10)) THEN Segment1(pp)
    ELSE IF RLt(pp, Num(30)) THEN Segment2(pp)
    ELSE IF RLt(pp, Num(70)) THEN Segment3(pp)
    ELSE Segment4(pp)

\* (variant) the cooling offset with the sign of its slope reversed
ReappearSlopeReversed(pp) ==
    RSub(Disappear(pp), RSub(Num(2), RMul(pp, Rat(5, 100))))

Reappear(pp) ==
    RSub(Disappear(pp), RAdd(Num(2), RMul(pp, Rat(5, 100))))

\* the handler reads phenol_vol first: without it the run raises and
\* changes nothing
PhenolExp2Render ==
    /\ phenol_vol # Unset
    /\ RenderOnly("phenol_exp2")

PhenolExp2Record ==
    /\ Pressed("phenol_exp2", "record_temps")
    /\ phenol_vol # Unset
    /\ LET tot == RAdd(phenol_vol, water_vol)
           pp == PercentPhenol(phenol_vol, tot)
       IN  /\ disappear' = Disappear(pp)
           /\ reappear' = Reappear(pp)
           /\ total' = tot
    /\ page' = "phenol_exp3"
    /\ NoSummary
    /\ UNCHANGED <<phenol_data, water_vol, phenol_vol, condVars>>

MeanTemp(d, r) == RDiv(RAdd(d, r), Num(2))

NewRow ==
    [phenol    |-> phenol_vol,
     water     |-> water_vol,
     percent   |-> PercentPhenol(phenol_vol, total),
     disappear |-> disappear,
     reappear  |-> reappear,
     mean      |-> MeanTemp(disappear, reappear)]

\* (variant) the record step without its look-up of the pair
RecordedAlways == Append(phenol_data, NewRow)

\* (variant) the record step replacing the pair's row by a fresh one
RecordedMoveToEnd ==
    Append(SelectSeq(phenol_data,
                     LAMBDA r : ~(r.phenol = phenol_vol /\ r.water = water_vol)),
           NewRow)

\* the table after the record step has run
Recorded ==
    IF ~HasPair(phenol_data, phenol_vol, water_vol)
    THEN Append(phenol_data, NewRow)
    ELSE phenol_data

\* (variant) the offer of more water made at the cap too
CanAddWaterInclusive(w) == RLe(w, Num(36))

\* (variant) the plot offered one millilitre early
CanAddWaterBelow35(w) == RLt(w, Num(35))

CanAddWater(w) == RLt(w, Num(36))

\* (variant) the addition without its cap
AddWaterUncapped(w) == RAdd(w, Num(2))

AddWater(w) == RMin(RAdd(w, Num(2)), Num(36))

Exp3Ready == phenol_vol # Unset /\ total # Unset /\ disappear # Unset

PhenolExp3Render ==
    /\ page = "phenol_exp3"
    /\ Exp3Ready
    /\ phenol_data' = Recorded
    /\ shown' = "phenol_exp3"
    /\ button' = "none"
    /\ NoSummary
    /\ UNCHANGED <<page, water_vol, phenol_vol, disappear, reappear, total,
                   condVars>>

\* (variant) more water added on the record page itself, without a new
\* observation
PhenolExp3AddWaterStays ==
    /\ Pressed("phenol_exp3", "add_water")
    /\ Exp3Ready
    /\ phenol_data' = Recorded
    /\ CanAddWater(water_vol)
    /\ water_vol' = AddWater(water_vol)
    /\ page' = "phenol_exp3"
    /\ NoSummary
    /\ UNCHANGED <<phenol_vol, disappear, reappear, total, condVars>>

PhenolExp3AddWater ==
    /\ Pressed("phenol_exp3", "add_water")
    /\ Exp3Ready
    /\ phenol_data' = Recorded
    /\ CanAddWater(water_vol)
    /\ water_vol' = AddWater(water_vol)
    /\ page' = "phenol_exp1"
    /\ NoSummary
    /\ UNCHANGED <<phenol_vol, disappear, reappear, total, condVars>>

PhenolExp3Plot ==
    /\ Pressed("phenol_exp3", "plot")
    /\ Exp3Ready
    /\ phenol_data' = Recorded
    /\ ~CanAddWater(water_vol)
    /\ page' = "phenol_graph"
    /\ NoSummary
    /\ UNCHANGED <<water_vol, phenol_vol, disappear, reappear, total,
                   condVars>>

\* rows equal in every column to an earlier row are dropped; the rows kept
\* stay in their order
DropDuplicates(t) ==
    LET keep == {i \in 1..Len(t) : \A j \in 1..(i - 1) : t[j] # t[i]}
    IN  [k \in 1..Cardinality(keep) |->
            t[CHOOSE i \in keep : Cardinality({j \in keep : j < i}) = k - 1]]

\* (variant) the table left in insertion order
SortValuesSkipped(t) == t

\* rows in ascending "% Phenol", rows of equal "% Phenol" in their order
SortValues(t) ==
    LET Before(i, j) ==
            \/ RLt(t[i].percent, t[j].percent)
            \/ t[i].percent = t[j].percent /\ i < j
        Rank(i) == Cardinality({j \in 1..Len(t) : Before(j, i)})
    IN  [k \in 1..Len(t) |-> t[CHOOSE i \in 1..Len(t) : Rank(i) = k - 1]]

\* position of the first occurrence of the largest "Mean Temp"
IdxMax(df) ==
    CHOOSE i \in 1..Len(df) :
        /\ \A j \in 1..Len(df) : RLe(df[j].mean, df[i].mean)
        /\ \A j \in 1..(i - 1) : RLt(df[j].mean, df[i].mean)

\* idxmax of an empty column raises: the run ends without a summary
PhenolGraphDraw ==
    /\ phenol_data # <<>>
    /\ \E unique \in {DropDuplicates(phenol_data)} :
          \E df \in {SortValues(unique)} :
             \E max_temp_idx \in {IdxMax(df)} :
                /\ cst_temp' = df[max_temp_idx].mean
                /\ cst_conc' = df[max_temp_idx].percent

\* (variant) the diagram drawn after sorting the session's table in place
PhenolGraphRenderInPlace ==
    /\ page = "phenol_graph"
    /\ PhenolGraphDraw
    /\ phenol_data' = SortValues(DropDuplicates(phenol_data))
    /\ shown' = "phenol_graph"
    /\ button' = "none"
    /\ UNCHANGED <<page, water_vol, phenol_vol, disappear, reappear, total,
                   condVars>>

PhenolGraphRender ==
    /\ page = "phenol_graph"
    /\ PhenolGraphDraw
    /\ shown' = "phenol_graph"
    /\ button' = "none"
    /\ UNCHANGED <<page, phenolVars, condVars>>

\* (variant) "Return Home" that restarts the workflow instead
PhenolGraphReturnToIntro ==
    /\ Pressed("phenol_graph", "return_home")
    /\ PhenolGraphDraw
    /\ page' = "phenol_intro"
    /\ UNCHANGED <<phenolVars, condVars>>

PhenolGraphReturnHome ==
    /\ Pressed("phenol_graph", "return_home")
    /\ PhenolGraphDraw
    /\ page' = "home"
    /\ UNCHANGED <<phenolVars, condVars>>

----------------------------------------------------------------------------
(* Conductometric titration                                                *)

CondIntroRender == RenderOnly("cond_intro")

\* (variant) Start that keeps the measurements of the previous run
CondIntroStartKeepsTable ==
    /\ Pressed("cond_intro", "start_cond")
    /\ current_naoh' = Num(0)
    /\ page' = "cond_standardize"
    /\ NoSummary
    /\ UNCHANGED <<cond_data, naoh_normality, naoh_titration, phenolVars>>

\* (variant) Start that also resets the water volume, as phenol_intro does
CondIntroStartResetsWater ==
    /\ Pressed("cond_intro", "start_cond")
    /\ cond_data' = <<>>
    /\ current_naoh' = Num(0)
    /\ water_vol' = Num(3)
    /\ page' = "cond_standardize"
    /\ NoSummary
    /\ UNCHANGED <<naoh_normality, naoh_titration, phenol_data, phenol_vol,
                   disappear, reappear, total>>

CondIntroStart ==
    /\ Pressed("cond_intro", "start_cond")
    /\ cond_data' = <<>>
    /\ current_naoh' = Num(0)
    /\ page' = "cond_standardize"
    /\ NoSummary
    /\ UNCHANGED <<naoh_normality, naoh_titration, phenolVars>>

CondStandardizeRender == RenderOnly("cond_standardize")

\* (variant) the quotient taken the other way round
NormalityInverted(naoh_used) ==
    RDiv(naoh_used, RMul(Num(25), Rat(5, 100)))

Normality(naoh_used) == RDiv(RMul(Num(25), Rat(5, 100)), naoh_used)

CondStandardizeCalculate ==
    /\ Pressed("cond_standardize", "calculate")
    /\ \E naoh_used \in NaohUsedInputs :
          naoh_normality' = Normality(naoh_used)
    /\ NoSummary
    /\ UNCHANGED <<page, cond_data, current_naoh, naoh_titration, phenolVars>>

CondStandardizeProceed ==
    /\ Pressed("cond_standardize", "proceed")
    /\ page' = "cond_titration"
    /\ NoSummary
    /\ UNCHANGED <<condVars, phenolVars>>

ConductanceLow(naoh_added) ==
    RSub(Rat(8, 10), RMul(Rat(2, 100), RDiv(naoh_added, Rat(2, 10))))

ConductanceHigh(naoh_added) ==
    RAdd(Rat(6, 10),
         RMul(Rat(3, 100), RDiv(RSub(naoh_added, Num(4)), Rat(2, 10))))

Conductance(naoh_added) ==
    IF RLe(naoh_added, Num(4)) THEN ConductanceLow(naoh_added)
    ELSE ConductanceHigh(naoh_added)

HasNaoh(table, naoh_added) ==
    \E i \in 1..Len(table) : table[i].naoh = naoh_added

\* the run in which the user has changed "Add NaOH (ml)"
CondTitrationRender ==
    /\ page = "cond_titration"
    /\ \E naoh_added \in NaohAddedInputs(current_naoh) :
          naoh_titration' = naoh_added
    /\ shown' = "cond_titration"
    /\ button' = "none"
    /\ NoSummary
    /\ UNCHANGED <<page, cond_data, naoh_normality, current_naoh, phenolVars>>

\* (variant) "Record Measurement" without its look-up of the volume
MeasuredAlways(naoh_added) ==
    Append(cond_data,
           [naoh |-> naoh_added, conductance |-> Conductance(naoh_added)])

\* the table after "Record Measurement"
Measured(naoh_added) ==
    IF ~HasNaoh(cond_data, naoh_added)
    THEN Append(cond_data,
                [naoh |-> naoh_added, conductance |-> Conductance(naoh_added)])
    ELSE cond_data

CondTitrationRecord ==
    /\ Pressed("cond_titration", "record_measurement")
    /\ Len(cond_data) < MaxCondRows \/ HasNaoh(cond_data, naoh_titration)
    /\ cond_data' = Measured(naoh_titration)
    /\ NoSummary
    /\ UNCHANGED <<page, naoh_normality, current_naoh, naoh_titration,
                   phenolVars>>

CondTitrationReturnHome ==
    /\ Pressed("cond_titration", "return_home_cond")
    /\ page' = "home"
    /\ NoSummary
    /\ UNCHANGED <<condVars, phenolVars>>

----------------------------------------------------------------------------
(* The application: one script run per step                                *)

Next ==
    \/ HomeRender
    \/ HomeSelectPhenol
    \/ HomeSelectTitration
    \/ PhenolIntroRender
    \/ PhenolIntroStart
    \/ PhenolExp1Render
    \/ PhenolExp1Heat
    \/ PhenolExp2Render
    \/ PhenolExp2Record
    \/ PhenolExp3Render
    \/ PhenolExp3AddWater
    \/ PhenolExp3Plot
    \/ PhenolGraphRender
    \/ PhenolGraphReturnHome
    \/ CondIntroRender
    \/ CondIntroStart
    \/ CondStandardizeRender
    \/ CondStandardizeCalculate
    \/ CondStandardizeProceed
    \/ CondTitrationRender
    \/ CondTitrationRecord
    \/ CondTitrationReturnHome

Spec == Init /\ [][Next]_vars

----------------------------------------------------------------------------
(* The temperature model on its own: the observe step applied to mixtures  *)
(* over the whole composition range, not only those the widgets allow      *)

ProbeMax == 9
ProbeVolumes == {Num(k) : k \in 0..ProbeMax}

TempInit ==
    /\ page = "phenol_exp2"
    /\ shown = "phenol_exp1"
    /\ button = "heat"
    /\ phenol_data = <<>>
    /\ water_vol \in ProbeVolumes
    /\ phenol_vol \in ProbeVolumes
    /\ RLt(Num(0), RAdd(phenol_vol, water_vol))
    /\ disappear = Unset
    /\ reappear = Unset
    /\ total = Unset
    /\ cst_temp = Unset
    /\ cst_conc = Unset
    /\ cond_data = <<>>
    /\ naoh_normality = Rat(1, 10)
    /\ current_naoh = Num(0)
    /\ naoh_titration = Unset

TempNext ==
    \/ PhenolExp2Render
    \/ PhenolExp2Record
    \/ PhenolExp3Render

TempSpec == TempInit /\ [][TempNext]_vars

----------------------------------------------------------------------------
(* Properties                                                              *)

\* C1: in every reachable state the Phenol Table holds at most one record
\* for each (phenol, water) pair.
C1_UniquePairs ==
    \A i, j \in 1..Len(phenol_data) :
        (/\ phenol_data[i].phenol = phenol_data[j].phenol
         /\ phenol_data[i].water = phenol_data[j].water) => i = j

\* "Add More Water" has just run the record step on a pair that is already
\* in a table of two records sharing their phenol volume
C1_Witness ==
    /\ button = "add_water"
    /\ Len(phenol_data) >= 2
    /\ HasPair(phenol_data, phenol_vol, phenol_data[1].water)
    /\ phenol_data[1].phenol = phenol_data[2].phenol
    /\ phenol_data[1].water # phenol_data[2].water

\* C2: the session water volume never exceeds 36.0 ml.
C2_WaterAtMost36 == RLe(water_vol, Num(36))

\* "Add More Water" pressed at 35.0 ml has left 36.0 ml
C2_Witness ==
    /\ button = "add_water"
    /\ water_vol = Num(36)
    /\ HasPair(phenol_data, phenol_vol, Num(35))

\* C4: a run on phenol_exp3 that leaves the page goes to phenol_exp1 with
\* water raised by 2.0 (capped at 36.0) when water < 36, and to phenol_graph
\* with water unchanged otherwise; a run that stays leaves water unchanged;
\* the page becomes phenol_graph only from phenol_exp3 with water >= 36.
C4_Exp3Transitions ==
    [][/\ (page = "phenol_exp3" /\ page' # "phenol_exp3") =>
             IF RLt(water_vol, Num(36))
             THEN /\ page' = "phenol_exp1"
                  /\ water_vol' = RMin(RAdd(water_vol, Num(2)), Num(36))
             ELSE /\ page' = "phenol_graph"
                  /\ water_vol' = water_vol
       /\ (page = "phenol_exp3" /\ page' = "phenol_exp3") =>
             water_vol' = water_vol
       /\ (page # "phenol_graph" /\ page' = "phenol_graph") =>
             (page = "phenol_exp3" /\ RLe(Num(36), water_vol))]_vars

\* "Plot" has been pressed at 36.0 ml after a record at 35.0 ml
C4_Witness ==
    /\ page = "phenol_graph"
    /\ button = "plot"
    /\ water_vol = Num(36)
    /\ \E i \in 1..Len(phenol_data) : phenol_data[i].water = Num(35)

C5_Row ==
    [phenol    |-> Num(5),
     water     |-> Num(3),
     percent   |-> Rat(125, 2),
     disappear |-> Rat(267, 4),
     reappear  |-> Rat(493, 8),
     mean      |-> Rat(1027, 16)]

\* C5: with the table empty since Start and phenol 5.0, water 3.0 prepared
\* and observed, the record step leaves exactly one record: percent 62.5,
\* disappear 66.75, reappear 61.625, mean 64.1875, and the total is 8.0.
C5_WorkedExample ==
    [][(/\ page = "phenol_exp3"
        /\ shown' = "phenol_exp3"
        /\ phenol_data = <<>>
        /\ phenol_vol = Num(5)
        /\ water_vol = Num(3)) =>
            (total = Num(8) /\ phenol_data' = <<C5_Row>>)]_vars

C5_Witness ==
    /\ page = "phenol_exp3"
    /\ shown = "phenol_exp3"
    /\ phenol_data = <<C5_Row>>
    /\ total = Num(8)

\* C6: the CST shown by phenol_graph is the mean temperature and the
\* percentage of a record whose mean is the largest of the table, and among
\* the records with that mean the one of lowest percentage.
C6_CstIsFirstMaximum ==
    shown = "phenol_graph" =>
        \E i \in 1..Len(phenol_data) :
            /\ cst_temp = phenol_data[i].mean
            /\ cst_conc = phenol_data[i].percent
            /\ \A j \in 1..Len(phenol_data) :
                  /\ RLe(phenol_data[j].mean, cst_temp)
                  /\ phenol_data[j].mean = cst_temp =>
                        RLe(cst_conc, phenol_data[j].percent)

\* the diagram is drawn from a table in which two records of different
\* percentage tie for the largest mean, the higher percentage recorded first
C6_Witness ==
    /\ shown = "phenol_graph"
    /\ \E i, j \in 1..Len(phenol_data) :
          /\ i < j
          /\ phenol_data[i].mean = cst_temp
          /\ phenol_data[j].mean = cst_temp
          /\ RLt(phenol_data[j].percent, phenol_data[i].percent)

\* C7: "Start" on phenol_intro leaves the table empty, the water volume 3.0
\* and the page phenol_exp1, whatever they held before.
C7_StartResets ==
    [][(page = "phenol_intro"
        /\ (page' # "phenol_intro" \/ button' = "start_phenol")) =>
            /\ phenol_data' = <<>>
            /\ water_vol' = Num(3)
            /\ page' = "phenol_exp1"]_vars

\* "Start" has run in a session whose previous run recorded and plotted
C7_Witness ==
    /\ page = "phenol_exp1"
    /\ button = "start_phenol"
    /\ phenol_data = <<>>
    /\ water_vol = Num(3)
    /\ total # Unset

\* C8: a run on phenol_exp3 with the current pair already in the table
\* leaves the table exactly as it was.
C8_RecordIdempotent ==
    [][(page = "phenol_exp3"
        /\ HasPair(phenol_data, phenol_vol, water_vol)) =>
            phenol_data' = phenol_data]_vars

\* the record step has been drawn for the pair of the first of two records
C8_Witness ==
    /\ page = "phenol_exp3"
    /\ shown = "phenol_exp3"
    /\ button = "none"
    /\ Len(phenol_data) = 2
    /\ phenol_data[1].phenol = phenol_vol
    /\ phenol_data[1].water = water_vol

C9_UniqueNaoh ==
    \A i, j \in 1..Len(cond_data) :
        cond_data[i].naoh = cond_data[j].naoh => i = j

\* C9: the Conductance Table holds at most one record per NaOH volume, and
\* "Record Measurement" appends the volume with its conductance when the
\* volume is absent and leaves the table unchanged otherwise.
C9_RecordOncePerNaoh ==
    /\ []C9_UniqueNaoh
    /\ [][button' = "record_measurement" =>
            IF HasNaoh(cond_data, naoh_titration)
            THEN cond_data' = cond_data
            ELSE /\ Len(cond_data') = Len(cond_data) + 1
                 /\ cond_data'[Len(cond_data')].naoh = naoh_titration
                 /\ SubSeq(cond_data', 1, Len(cond_data)) = cond_data]_vars

\* "Record Measurement" has been pressed for the volume of the first of two
\* records
C9_Witness ==
    /\ button = "record_measurement"
    /\ Len(cond_data) = 2
    /\ naoh_titration = cond_data[1].naoh

\* C3: the Disappearance Temperature Model is continuous at 10, 30 and 70:
\* the temperature stored for a mixture whose percentage is exactly such a
\* boundary equals the value there of the segment that ends just below it.
C3_ContinuousAtBoundaries ==
    page = "phenol_exp3" =>
        LET pp == PercentPhenol(phenol_vol, total)
        IN  /\ pp = Num(10) => disappear = Segment1(pp)
            /\ pp = Num(30) => disappear = Segment2(pp)
            /\ pp = Num(70) => disappear = Segment3(pp)

\* C10: the Conductance Model gives 0.8 at 0.0 ml, 0.6 at 4.0 ml and 1.2 at
\* 8.0 ml, and its two branch formulas agree at 4.0 ml.
C10_ConductanceValues ==
    /\ \A i \in 1..Len(cond_data) :
          /\ cond_data[i].naoh = Num(0) =>
                cond_data[i].conductance = Rat(8, 10)
          /\ cond_data[i].naoh = Num(4) =>
                cond_data[i].conductance = Rat(6, 10)
          /\ cond_data[i].naoh = Num(8) =>
                cond_data[i].conductance = Rat(12, 10)
    /\ cond_data # <<>> => ConductanceLow(Num(4)) = ConductanceHigh(Num(4))

\* C11: for every mixture from 0% to 100% phenol the reappearance
\* temperature stored by the observe step is strictly below the disappearance
\* temperature, and every record of the table has reappear < mean < disappear.
C11_ReappearBelowDisappear ==
    /\ page = "phenol_exp3" => RLt(reappear, disappear)
    /\ \A i \in 1..Len(phenol_data) :
          /\ RLt(phenol_data[i].reappear, phenol_data[i].mean)
          /\ RLt(phenol_data[i].mean, phenol_data[i].disappear)

\* a record of pure phenol (100%) has been stored
C11_Witness ==
    /\ shown = "phenol_exp3"
    /\ phenol_data # <<>>
    /\ phenol_data[1].percent = Num(100)

\* C12: on cond_standardize, "Calculate" sets naohNormality to
\* (25.0 * 0.05) / naohUsed for the volume entered and leaves the page
\* unchanged; "Proceed" sets the page to cond_titration and leaves
\* naohNormality unchanged, whether or not "Calculate" was ever pressed.
C12_CalculateAndProceed ==
    [][/\ (page = "cond_standardize" /\ button' = "calculate") =>
             /\ page' = page
             /\ \E naoh_used \in NaohUsedInputs :
                   naoh_normality' = RDiv(Rat(125, 100), naoh_used)
       /\ (page = "cond_standardize" /\ button' = "proceed") =>
             /\ page' = "cond_titration"
             /\ naoh_normality' = naoh_normality
       /\ (page = "cond_standardize" /\ button' = "none") =>
             /\ page' = page
             /\ naoh_normality' = naoh_normality]_vars

\* "Proceed" has been pressed with the normality still at its initial 0.1,
\* which no standardization volume produces
C12_Witness ==
    /\ page = "cond_titration"
    /\ button = "proceed"
    /\ naoh_normality = Rat(1, 10)
    /\ \A naoh_used \in NaohUsedInputs : Normality(naoh_used) # Rat(1, 10)

\* C13: "Start" on cond_intro leaves the Conductance Table empty,
\* currentNaohVolume at 0.0 and the page at cond_standardize.
C13_CondStartResets ==
    [][(page = "cond_intro"
        /\ (page' # "cond_intro" \/ button' = "start_cond")) =>
            /\ cond_data' = <<>>
            /\ current_naoh' = Num(0)
            /\ page' = "cond_standardize"]_vars

\* "Start" has run in a session whose previous titration took measurements
C13_Witness ==
    /\ page = "cond_standardize"
    /\ button = "start_cond"
    /\ cond_data = <<>>
    /\ current_naoh = Num(0)
    /\ naoh_titration # Unset

C15_AppendOnly ==
    [][button' # "start_phenol" =>
          \/ phenol_data' = phenol_data
          \/ /\ page = "phenol_exp3"
             /\ Len(phenol_data') = Len(phenol_data) + 1
             /\ SubSeq(phenol_data', 1, Len(phenol_data)) = phenol_data]_vars

\* the diagram has been drawn from a table whose records are not in
\* ascending percentage, and the table is still in its insertion order
C15_Witness ==
    /\ page = "phenol_graph"
    /\ shown = "phenol_graph"
    /\ Len(phenol_data) = 2
    /\ RLt(phenol_data[2].percent, phenol_data[1].percent)

PhenolPages ==
    {"phenol_intro", "phenol_exp1", "phenol_exp2", "phenol_exp3",
     "phenol_graph"}

CondPages == {"cond_intro", "cond_standardize", "cond_titration"}

\* C16: a run of a phenol-workflow handler changes neither the Conductance
\* Table nor naohNormality nor currentNaohVolume, and a run of a
\* titration-workflow handler changes neither the Phenol Table nor the water
\* and phenol volumes nor the stored disappear, reappear and total.
C16_WorkflowsSeparate ==
    [][/\ page \in PhenolPages =>
             UNCHANGED <<cond_data, naoh_normality, current_naoh>>
       /\ page \in CondPages =>
             UNCHANGED <<phenol_data, water_vol, phenol_vol, disappear,
                         reappear, total>>]_vars

\* a measurement has been recorded while the phenol workflow's table and
\* temperatures of an earlier run are in the session
C16_Witness ==
    /\ page = "cond_titration"
    /\ button = "record_measurement"
    /\ cond_data # <<>>
    /\ phenol_data # <<>>
    /\ disappear # Unset

\* C17: the page is never phenol_exp2 with the phenol volume not yet stored,
\* and never phenol_exp3 with disappear, reappear or total not yet stored.
C17_UpstreamStatePresent ==
    /\ page = "phenol_exp2" => phenol_vol # Unset
    /\ page = "phenol_exp3" =>
          (phenol_vol # Unset /\ disappear # Unset /\ reappear # Unset
           /\ total # Unset)

\* the record step is reached for the first time in the session
C17_Witness ==
    /\ page = "phenol_exp3"
    /\ shown = "phenol_exp2"
    /\ button = "record_temps"
    /\ phenol_data = <<>>
    /\ cond_data = <<>>

RowConsistent(r) ==
    /\ r.percent = PercentPhenol(r.phenol, RAdd(r.phenol, r.water))
    /\ r.disappear = Disappear(r.percent)
    /\ r.reappear = Reappear(r.percent)
    /\ r.mean = MeanTemp(r.disappear, r.reappear)

\* C18: every record of the Phenol Table is consistent with its own volumes
\* (percent = 100 * phenol / (phenol + water), disappear and reappear the
\* model's values for that percent, mean their average), and on the record
\* page the stored total and temperatures are those of the current volumes.
C18_RecordsConsistent ==
    /\ \A i \in 1..Len(phenol_data) : RowConsistent(phenol_data[i])
    /\ page = "phenol_exp3" =>
          /\ total = RAdd(phenol_vol, water_vol)
          /\ disappear = Disappear(PercentPhenol(phenol_vol, total))
          /\ reappear = Reappear(PercentPhenol(phenol_vol, total))

\* a second record has been stored after "Add More Water" and a new
\* observation of the same phenol volume with 2 ml more water
C18_Witness ==
    /\ page = "phenol_exp3"
    /\ shown = "phenol_exp3"
    /\ Len(phenol_data) = 2
    /\ phenol_data[2].phenol = phenol_data[1].phenol
    /\ phenol_data[2].water = RAdd(phenol_data[1].water, Num(2))

\* C19: whenever the page is phenol_graph the Phenol Table is not empty and
\* holds a record with 36.0 ml of water.
C19_GraphHasRecordAt36 ==
    page = "phenol_graph" =>
        /\ phenol_data # <<>>
        /\ \E i \in 1..Len(phenol_data) : phenol_data[i].water = Num(36)

\* the diagram is drawn from two records, the first taken below 36.0 ml
C19_Witness ==
    /\ page = "phenol_graph"
    /\ shown = "phenol_graph"
    /\ Len(phenol_data) = 2
    /\ phenol_data[1].water # Num(36)
    /\ cst_temp # Unset

PercentReachable(pp) ==
    /\ RLe(Rat(100 * 5, 41), pp)
    /\ RLe(pp, Rat(100 * 10, 13))
    /\ ~RLt(pp, Num(10))

\* C20: the percentage of every record, and the one the record page works
\* with, lies between 100*5/41 and 100*10/13, so it is never below 10 and the
\* first segment of the model is never the one applied.
C20_PercentWithinWidgetRange ==
    /\ \A i \in 1..Len(phenol_data) :
          PercentReachable(phenol_data[i].percent)
    /\ page = "phenol_exp3" =>
          PercentReachable(PercentPhenol(phenol_vol, total))

\* the table holds the most dilute mixture the widgets allow (5.0 ml phenol
\* in 36.0 ml water) and one of the last segment (9.0 ml in 3.0 ml, 75%)
C20_Witness ==
    /\ Len(phenol_data) = 2
    /\ phenol_data[1].percent = Num(75)
    /\ phenol_data[2].percent = Rat(100 * 5, 41)

====
